---- MODULE Spec2Model ----
(***************************************************************************)
(* Model of the GitHub top-100 synchronisation pipeline:                   *)
(*   app/services/github_parser.py  (rank fetcher, paginated commit fetch, *)
(*                                   aggregator, the two reconciliations)  *)
(*   app/repositories/crud.py       (the update-then-insert upserts)       *)
(*   app/repositories/routers.py    (the activity endpoint)                *)
(*   update_data.py                 (the batch job refresh_data)           *)
(* Every awaited store statement and every provider request is one step.   *)
(* The two tables are bags of rows: the source declares no key, so two     *)
(* rows with one key are representable and their absence is checked.       *)
(***************************************************************************)
EXTENDS Integers, Sequences, FiniteSets, Bags, TLC

\* ------------------------------------------------------------------ bounds

\* longest ranking the provider returns in the rank specification
MaxRank == 2
\* longest ranking the provider returns in the batch specification
MaxTracked == 2

\* most full pages the provider holds for one repository (fetch specification)
MaxPages == 3

\* longest commit sequence handed to the aggregator (aggregator specification)
MaxCommits == 2

\* most full pages the provider holds for one repository (activity
\* specification)
SyncPages == 1

\* largest commit count passed to upsert_repo_activity (store specification)
MaxCount == 2

\* ------------------------------------------------------------------ values

\* Python None / SQL NULL; a present optional value x is <<x>>
NULL == <<>>
Some(x) == <<x>>

\* a full name "owner/name" is the pair <<owner, name>>
FullName(owner, name) == <<owner, name>>
\* full_name.split("/", 1)
SplitFullName(full_name) == <<full_name[1], full_name[2]>>

Names == {FullName("a", "x"), FullName("a", "y"), FullName("b", "x")}

\* the metric fields of one item of the provider's search response
MetricsA == [stargazers_count |-> 9, watchers_count |-> 8, forks_count |-> 3,
             open_issues_count |-> 1, language |-> Some("Python")]
MetricsB == [stargazers_count |-> 5, watchers_count |-> 4, forks_count |-> 0,
             open_issues_count |-> 2, language |-> NULL]
MetricsSet == {MetricsA, MetricsB}

\* one item of result['items'] as the provider sends it
SearchItem(full_name, m) ==
    [full_name |-> full_name, owner |-> [login |-> full_name[1]],
     stargazers_count |-> m.stargazers_count,
     watchers_count |-> m.watchers_count,
     forks_count |-> m.forks_count,
     open_issues_count |-> m.open_issues_count,
     language |-> m.language]

RECURSIVE RankingsOf(_, _, _)
\* the rankings of at most maxLen items of distinct repositories of names
\* (one response of the provider lists a repository once)
RankingsOf(names, metrics, maxLen) ==
    IF maxLen = 0 THEN {<<>>}
    ELSE LET shorter == RankingsOf(names, metrics, maxLen - 1)
             fresh(s) == {n \in names : \A j \in 1..Len(s) : s[j].full_name # n}
         IN  shorter \cup UNION {{Append(s, SearchItem(n, m)) :
                                    n \in fresh(s), m \in metrics} : s \in shorter}

\* what api.search.repos can answer: it raises, or it returns a payload that
\* holds the list of items or does not
SearchResponses(rankings) ==
    {[kind |-> "error"]}
    \cup {[kind |-> "payload", body |-> [message |-> "no items"]]}
    \cup {[kind |-> "payload", body |-> [items |-> s]] : s \in rankings}

\* -------------------------------------------------------------- bag helpers

RECURSIVE SumOver(_, _)
\* the copies of the rows of S in bag B
SumOver(B, S) ==
    IF S = {} THEN 0
    ELSE LET r == CHOOSE x \in S : TRUE
         IN  B[r] + SumOver(B, S \ {r})

\* the number of rows of B (all copies)
RowCount(B) == SumOver(B, DOMAIN B)

\* INSERT INTO t VALUES row
InsertRow(B, row) == B (+) SetToBag({row})

\* ------------------------------------------------------------------- state

VARIABLES
    top100,         \* table top100: a bag of rows
    activity,       \* table activity: a bag of rows
    pc,             \* the statement the job is at
    repos,          \* update_top100_in_db: the fetched ranking
    search_result,  \* fetch_top100_repos: what api.search.repos answered
    prev_repos,     \* history: the ranking of the cycle completed just before
    prev_deleted,   \* history: full name and rank of the rows that cycle deleted
    k,              \* update_top100_in_db: index of repo_data in repos
    update_result,  \* upsert_*: the status string of the UPDATE
    table0,         \* history: top100 when the reconciliation was called
    stack,          \* the statements the awaiting callers resume at
    target,         \* fetch_commits / update_activity_in_db: <<owner, repo>>
    remote,         \* the commits the provider holds for target and the window
    page,           \* fetch_commits: page
    commits,        \* fetch_commits: commits
    fetched,        \* update_activity_in_db: commits, as fetch_commits returned
    daily_stats,    \* update_activity_in_db: daily_stats, in insertion order
    day_ix,         \* update_activity_in_db: index of the item of daily_stats
    ua,             \* upsert_repo_activity: its arguments
    activity0,      \* history: activity when the running call was made
    repeated,       \* history: the running upsert repeats the call before it
    req,            \* get_repo_activity: owner, repo, since, until
    response,       \* get_repo_activity: the HTTP response
    api_calls,      \* history: store calls the running request has issued
    requests,       \* history: the pages requested by the running fetch
    fetch_failed,   \* history: the running fetch took its except branch
    records,        \* refresh_data: records
    rec_ix,         \* refresh_data: index of record in records
    returned,       \* handler: the value it returned
    attempted,      \* history: the records update_activity_in_db was called for
    failures,       \* history: the indexes of the records whose fetch failed
    crashed_at,     \* history: the statement whose exception ended the job
    cpc,            \* concurrent upserts: the statement each client is at
    cargs,          \* concurrent upserts: each client's arguments
    cres            \* concurrent upserts: each client's update_result

storeVars == <<top100, activity>>
rankVars == <<repos, k, table0, search_result, prev_repos, prev_deleted>>
fetchVars == <<target, remote, page, commits, fetched, requests, fetch_failed>>
syncVars == <<daily_stats, day_ix, ua, activity0, repeated>>
apiVars == <<req, response, api_calls>>
batchVars == <<records, rec_ix, returned, attempted, failures>>
concVars == <<cpc, cargs, cres>>
otherVars == <<crashed_at, cpc, cargs, cres>>
vars == <<top100, activity, pc, stack, update_result, repos, k, table0,
          search_result, prev_repos, prev_deleted,
          target, remote, page, commits, fetched, requests, fetch_failed,
          daily_stats, day_ix, ua, activity0, repeated, req, response, api_calls,
          records, rec_ix, returned, attempted, failures, crashed_at,
          cpc, cargs, cres>>

\* a function returns: the caller on top of the stack resumes
Return ==
    /\ pc' = Head(stack)
    /\ stack' = Tail(stack)

\* an exception no caller catches ends the job
Crash ==
    /\ pc' = "Crashed"
    /\ stack' = <<>>
    /\ crashed_at' = pc

\* connection.execute returns "UPDATE <n>"
UpdateStatus(n) == <<"UPDATE", n>>

\* ------------------------------------------------- rank fetcher (pure part)

\* mutant of RepoData: the ranks are counted from 0
RepoDataFromZero(num, repo) ==
    [repo |-> repo.full_name,
     owner |-> repo.owner.login,
     position_cur |-> num - 1,
     position_prev |-> NULL,
     stars |-> repo.stargazers_count,
     watchers |-> repo.watchers_count,
     forks |-> repo.forks_count,
     open_issues |-> repo.open_issues_count,
     language |-> repo.language]

\* one repo_data dict of fetch_top100_repos
RepoData(num, repo) ==
    [repo |-> repo.full_name,
     owner |-> repo.owner.login,
     position_cur |-> num,
     position_prev |-> NULL,
     stars |-> repo.stargazers_count,
     watchers |-> repo.watchers_count,
     forks |-> repo.forks_count,
     open_issues |-> repo.open_issues_count,
     language |-> repo.language]

\* fetch_top100_repos on the payload result of api.search.repos
FetchTop100Repos(result) ==
    IF "items" \in DOMAIN result
    THEN [num \in 1..Len(result.items) |-> RepoData(num, result.items[num])]
    ELSE <<>>

\* new_repos = {repo['repo'] for repo in repos}
NewRepos(rs) == {rs[j].repo : j \in 1..Len(rs)}

\* ------------------------------------------------ top100 store statements

\* mutant of DeleteStale: the DELETE is left out
DeleteStaleNothing(B, new_repos) == B

\* DELETE FROM top100 WHERE repo NOT IN (SELECT UNNEST($1::text[]))
DeleteStale(B, new_repos) ==
    [r \in {x \in DOMAIN B : x.repo \in new_repos} |-> B[r]]

\* mutant of ShiftRow: position_prev is copied after position_cur is overwritten
ShiftRowAfterOverwrite(row, d) ==
    [row EXCEPT !.position_prev = Some(d.position_cur),
                !.position_cur = d.position_cur,
                !.stars = d.stars,
                !.watchers = d.watchers,
                !.forks = d.forks,
                !.open_issues = d.open_issues,
                !.language = d.language]

\* the SET clause of the UPDATE of upsert_top_100_repo on one matching row
ShiftRow(row, d) ==
    [row EXCEPT !.position_prev = Some(row.position_cur),
                !.position_cur = d.position_cur,
                !.stars = d.stars,
                !.watchers = d.watchers,
                !.forks = d.forks,
                !.open_issues = d.open_issues,
                !.language = d.language]

\* mutant of Top100Matched: the WHERE clause matches no row
Top100MatchedNone(B, d) == {}

\* the rows of B the UPDATE ... WHERE repo = $1 matches
Top100Matched(B, d) == {r \in DOMAIN B : r.repo = d.repo}

\* mutant of UpdateTop100: the UPDATE leaves the matching rows as they are
UpdateTop100Ignored(B, d) == B

\* UPDATE top100 SET ... WHERE repo = $1
UpdateTop100(B, d) ==
    LET new(r) == IF r.repo = d.repo THEN ShiftRow(r, d) ELSE r
    IN  [t \in {new(r) : r \in DOMAIN B} |->
            SumOver(B, {r \in DOMAIN B : new(r) = t})]

\* mutant of Top100Row: the INSERT stores the current rank as the previous one
Top100RowPrevIsCur(d) ==
    [repo |-> d.repo,
     owner |-> d.owner,
     position_cur |-> d.position_cur,
     position_prev |-> Some(d.position_cur),
     stars |-> d.stars,
     watchers |-> d.watchers,
     forks |-> d.forks,
     open_issues |-> d.open_issues,
     language |-> d.language]

\* the row of INSERT INTO top100 (...) VALUES ($1, ..., $9)
Top100Row(d) ==
    [repo |-> d.repo,
     owner |-> d.owner,
     position_cur |-> d.position_cur,
     position_prev |-> d.position_prev,
     stars |-> d.stars,
     watchers |-> d.watchers,
     forks |-> d.forks,
     open_issues |-> d.open_issues,
     language |-> d.language]

\* upsert_top_100_repo as a whole: the UPDATE, and the INSERT if it matched
\* no row
UpsertTop100(B, d) ==
    IF Top100Matched(B, d) = {} THEN InsertRow(B, Top100Row(d)) ELSE UpdateTop100(B, d)

RECURSIVE UpsertedUpTo(_, _, _)
\* the first n turns of `for repo_data in repos` on table B
UpsertedUpTo(B, rs, n) ==
    IF n = 0 THEN B ELSE UpsertTop100(UpsertedUpTo(B, rs, n - 1), rs[n])

\* ------------------------------------------- update_top100_in_db, stepwise

\* repos = await fetch_top100_repos(): the provider answers resp
FetchTop100(resp) ==
    /\ pc = "fetch_top100"
    /\ IF resp.kind = "error"
       THEN /\ Crash
            /\ UNCHANGED repos
       ELSE /\ repos' = FetchTop100Repos(resp.body)
            /\ pc' = "rank_delete"
            /\ UNCHANGED <<stack, crashed_at>>
    /\ search_result' = resp
    /\ UNCHANGED <<storeVars, k, update_result, table0, prev_repos, prev_deleted, fetchVars,
                   syncVars, apiVars, batchVars, concVars>>

\* the DELETE, then the first turn of `for repo_data in repos`
RankDelete ==
    /\ pc = "rank_delete"
    /\ top100' = DeleteStale(top100, NewRepos(repos))
    /\ k' = 1
    /\ IF Len(repos) = 0
       THEN Return
       ELSE pc' = "rank_update" /\ UNCHANGED stack
    /\ UNCHANGED <<activity, repos, update_result, table0, search_result,
                   prev_repos, prev_deleted, fetchVars, syncVars, apiVars, batchVars, otherVars>>

\* upsert_top_100_repo: the UPDATE of repos[k]
RankUpdate ==
    /\ pc = "rank_update"
    /\ LET n == SumOver(top100, Top100Matched(top100, repos[k]))
       IN  /\ top100' = UpdateTop100(top100, repos[k])
           /\ update_result' = UpdateStatus(n)
           /\ IF UpdateStatus(n) = UpdateStatus(0)
              THEN /\ pc' = "rank_insert"
                   /\ UNCHANGED <<k, stack>>
              ELSE /\ k' = k + 1
                   /\ IF k = Len(repos)
                      THEN Return
                      ELSE pc' = "rank_update" /\ UNCHANGED stack
    /\ UNCHANGED <<activity, repos, table0, search_result, prev_repos, prev_deleted, fetchVars,
                   syncVars, apiVars, batchVars, otherVars>>

\* upsert_top_100_repo: the INSERT after "UPDATE 0"
RankInsert ==
    /\ pc = "rank_insert"
    /\ top100' = InsertRow(top100, Top100Row(repos[k]))
    /\ k' = k + 1
    /\ IF k = Len(repos)
       THEN Return
       ELSE pc' = "rank_update" /\ UNCHANGED stack
    /\ UNCHANGED <<activity, repos, update_result, table0, search_result,
                   prev_repos, prev_deleted, fetchVars, syncVars, apiVars, batchVars, otherVars>>

\* update_top100_in_db() is entered; its caller resumes at `resume`
EnterUpdateTop100(resume) ==
    /\ pc' = "fetch_top100"
    /\ stack' = <<resume>> \o stack
    /\ table0' = top100
    /\ repos' = <<>>
    /\ k' = 1
    /\ update_result' = UpdateStatus(0)
    /\ search_result' = [kind |-> "pending"]
    /\ prev_repos' = IF pc = "rank_done" THEN Some(repos) ELSE NULL
    /\ prev_deleted' = IF pc = "rank_done"
                       THEN {<<r.repo, r.position_cur>> :
                                r \in {r0 \in DOMAIN table0 : r0.repo \notin NewRepos(repos)}}
                       ELSE {}
    /\ UNCHANGED <<storeVars, fetchVars, syncVars, apiVars>>

\* a ranking cycle on its own: update_top100_in_db() is awaited
CallUpdateTop100 ==
    /\ pc \in {"Idle", "rank_done", "Crashed"}
    /\ stack = <<>>
    /\ EnterUpdateTop100("rank_done")
    /\ crashed_at' = "nowhere"
    /\ UNCHANGED <<batchVars, concVars>>

\* ------------------------------------------------------ commit provider

\* per_page of fetch_commits
per_page == 100

\* a commit's author timestamp "<day>T<hour>:00:00<tz>": day counts calendar
\* days, tz is "Z" or a numeric offset
Timestamp(day, hour, tz) == [day |-> day, hour |-> hour, tz |-> tz]

Timestamps == {Timestamp(d, h, tz) : d \in {1, 2}, h \in {1}, tz \in {"Z", "+03:00"}}

\* one commit as list_commits sends it, the author's name a string or null
CommitOf(ts, name) == [commit |-> [author |-> [date |-> ts, name |-> name]]]

\* one commit whose author object has no name key
CommitNoName(ts) == [commit |-> [author |-> [date |-> ts]]]

AuthorNames == {Some("Alice"), Some("Bob"), NULL}

CommitRecords ==
    {CommitOf(ts, n) : ts \in Timestamps, n \in AuthorNames}
    \cup {CommitNoName(ts) : ts \in Timestamps}

\* a commit list of n commits that repeats the commits of pattern in turn
Repeat(pattern, n) == [j \in 1..n |-> pattern[((j - 1) % Len(pattern)) + 1]]

\* the patterns the commit lists of the fetch and activity specifications repeat
Patterns ==
    {<<CommitOf(Timestamp(1, 1, "Z"), Some("Alice"))>>,
     <<CommitOf(Timestamp(1, 1, "Z"), Some("Alice")),
       CommitNoName(Timestamp(2, 1, "Z"))>>}

\* commit lists of up to pages full pages, each alone, one commit short, or
\* followed by one more commit
RemoteLists(pages) ==
    {Repeat(pt, n) : pt \in Patterns,
                     n \in {f * per_page + r : f \in 0..pages, r \in {0, 1, per_page - 1}}}

\* the page the provider answers api.repos.list_commits(per_page=n, page=p) with
PageOf(list, p, n) ==
    SubSeq(list, (p - 1) * n + 1, IF p * n < Len(list) THEN p * n ELSE Len(list))

\* --------------------------------------------------- fetch_commits, stepwise

\* mutant of NextPage: the loop skips a page
NextPageSkips(p) == p + 2

\* page += 1
NextPage(p) == p + 1

\* the locals of fetch_commits(owner, repo, since, until) as it starts
FetchLocals(t, list) ==
    /\ target' = t
    /\ remote' = list
    /\ page' = 1
    /\ commits' = <<>>
    /\ fetched' = <<>>
    /\ requests' = <<>>
    /\ fetch_failed' = FALSE

\* one turn of `while True`: the provider answers the page request
ListCommitsPage ==
    /\ pc = "fetch_page"
    /\ requests' = Append(requests, page)
    /\ LET result == PageOf(remote, page, per_page)
       IN  IF result = <<>>
           THEN /\ fetched' = commits
                /\ Return
                /\ UNCHANGED <<commits, page>>
           ELSE /\ commits' = commits \o result
                /\ IF Len(result) < per_page
                   THEN /\ fetched' = commits \o result
                        /\ Return
                        /\ UNCHANGED page
                   ELSE /\ page' = NextPage(page)
                        /\ UNCHANGED <<pc, stack, fetched>>
    /\ UNCHANGED <<storeVars, update_result, rankVars, syncVars, apiVars, batchVars, otherVars, target, remote,
                   fetch_failed>>

\* mutant of ExceptReturn: the except branch returns the pages received so far
ExceptReturnPartial(cs) == cs

\* `except Exception`: print, return []
ExceptReturn(cs) == <<>>

\* one turn of `while True`: the page request raises
ListCommitsFails ==
    /\ pc = "fetch_page"
    /\ requests' = Append(requests, page)
    /\ fetch_failed' = TRUE
    /\ fetched' = ExceptReturn(commits)
    /\ Return
    /\ UNCHANGED <<storeVars, update_result, rankVars, syncVars, apiVars, batchVars, otherVars, target, remote,
                   page, commits>>

\* a fetch on its own: fetch_commits(...) is awaited
CallFetchCommits(t, list) ==
    /\ pc = "Idle"
    /\ stack = <<>>
    /\ pc' = "fetch_page"
    /\ stack' = <<"fetch_done">>
    /\ FetchLocals(t, list)
    /\ UNCHANGED <<storeVars, update_result, rankVars, syncVars, apiVars, batchVars, otherVars>>

\* ------------------------------------------------ aggregate_commits_by_day

\* commit_date_str.replace('Z', '+00:00')
ReplaceZ(ts) == IF ts.tz = "Z" THEN [ts EXCEPT !.tz = "+00:00"] ELSE ts

\* the hours of a numeric offset
OffsetHours(tz) == IF tz = "+03:00" THEN 3 ELSE 0

\* datetime.fromisoformat: an aware datetime keeps the fields as written
FromIsoFormat(ts) ==
    [day |-> ts.day, hour |-> ts.hour, utcoffset |-> OffsetHours(ts.tz)]

\* mutant of DateOf: the date is taken after conversion to UTC
DateOfInUtc(dt) == IF dt.hour - dt.utcoffset < 0 THEN dt.day - 1 ELSE dt.day

\* commit_date.date()
DateOf(dt) == dt.day

\* date.isoformat(): the string 'YYYY-MM-DD' of a date
IsoFormat(date) == [iso |-> date]

\* datetime.strptime(date_str, "%Y-%m-%d").date()
Strptime(date_str) == date_str.iso

\* day_str of one commit
DayStr(c) == IsoFormat(DateOf(FromIsoFormat(ReplaceZ(c.commit.author.date))))

\* author_name of one commit: the default, replaced by the value of the name
\* key when the author object is non-empty and holds the key
AuthorName(c) ==
    IF DOMAIN c.commit.author # {} /\ "name" \in DOMAIN c.commit.author
    THEN c.commit.author.name
    ELSE Some("Unknown")

\* mutant of Count: a day's count is set, not incremented
CountStuck(n) == 1

\* daily_stats[day_str]['commits'] += 1
Count(n) == n + 1

\* one turn of `for c in commits` on daily_stats (a dict: entries in
\* insertion order, one per key)
AggregateOne(stats, c) ==
    LET day_str == DayStr(c)
        present == \E a \in 1..Len(stats) : stats[a].day = day_str
        opened == IF present THEN stats
                  ELSE Append(stats, [day |-> day_str, commits |-> 0, authors |-> {}])
        at == CHOOSE a \in 1..Len(opened) : opened[a].day = day_str
    IN  [opened EXCEPT ![at] = [@ EXCEPT !.commits = Count(@),
                                         !.authors = @ \cup {AuthorName(c)}]]

RECURSIVE AggregateRange(_, _, _, _)
\* the turns lo..hi of `for c in commits`: one commit at a time, in order,
\* each on the daily_stats the turn before left. The range is halved, and the
\* first half is evaluated (the test on its length) before the second starts,
\* only to keep the evaluation shallow on a list of some hundred commits.
AggregateRange(stats, cs, lo, hi) ==
    IF lo > hi THEN stats
    ELSE IF lo = hi THEN AggregateOne(stats, cs[lo])
    ELSE LET mid == (lo + hi) \div 2
             left == AggregateRange(stats, cs, lo, mid)
         IN  IF Len(left) > 0 THEN AggregateRange(left, cs, mid + 1, hi) ELSE left

\* aggregate_commits_by_day(commits)
AggregateCommitsByDay(cs) == AggregateRange(<<>>, cs, 1, Len(cs))

\* the aggregator on its own: aggregate_commits_by_day(cs) is called
CallAggregate(cs) ==
    /\ pc = "Idle"
    /\ fetched' = cs
    /\ daily_stats' = AggregateCommitsByDay(cs)
    /\ pc' = "agg_done"
    /\ UNCHANGED <<storeVars, stack, update_result, rankVars, day_ix, ua, activity0,
                   repeated, apiVars, batchVars, otherVars, target, remote, page, commits,
                   requests, fetch_failed>>

\* ---------------------------------------------- activity store statements

\* the rows of B with the key (owner, repo, date) of the arguments a
ActivityMatched(B, a) ==
    {r \in DOMAIN B : r.owner = a.owner /\ r.repo = a.repo /\ r.date = a.date}

\* mutant of OverwriteActivity: the UPDATE adds the commits to the stored count
OverwriteActivityAdds(row, a) ==
    [row EXCEPT !.commits = @ + a.commits, !.authors = a.authors]

\* the SET clause of the UPDATE of upsert_repo_activity on one matching row
OverwriteActivity(row, a) ==
    [row EXCEPT !.commits = a.commits, !.authors = a.authors]

\* mutant of UpdateActivity: the statement removes the rows it matches
UpdateActivityDrops(B, a) ==
    [r \in DOMAIN B \ ActivityMatched(B, a) |-> B[r]]

\* UPDATE activity SET ... WHERE owner = $1 AND repo = $2 AND date = $3
UpdateActivity(B, a) ==
    LET new(r) == IF r \in ActivityMatched(B, a) THEN OverwriteActivity(r, a) ELSE r
    IN  [t \in {new(r) : r \in DOMAIN B} |->
            SumOver(B, {r \in DOMAIN B : new(r) = t})]

\* the row of INSERT INTO activity (...) VALUES ($1, ..., $5)
ActivityRow(a) ==
    [owner |-> a.owner, repo |-> a.repo, date |-> a.date,
     commits |-> a.commits, authors |-> a.authors]

\* ------------------------------------------- upsert_repo_activity, stepwise

\* upsert_repo_activity(connection, owner, repo, date, commits, authors) is
\* entered
EnterUpsertActivity(resume, a) ==
    /\ pc' = "act_update"
    /\ stack' = <<resume>> \o stack
    /\ ua' = a

\* mutant of NoRowUpdated: the INSERT runs whatever the UPDATE matched
NoRowUpdatedAlways(status) == TRUE

\* update_result == "UPDATE 0"
NoRowUpdated(status) == status = UpdateStatus(0)

\* upsert_repo_activity: the UPDATE
ActUpdate ==
    /\ pc = "act_update"
    /\ LET n == SumOver(activity, ActivityMatched(activity, ua))
       IN  /\ activity' = UpdateActivity(activity, ua)
           /\ update_result' = UpdateStatus(n)
           /\ IF NoRowUpdated(UpdateStatus(n))
              THEN pc' = "act_insert" /\ UNCHANGED stack
              ELSE Return
    /\ UNCHANGED <<top100, rankVars, fetchVars, daily_stats, day_ix, ua, activity0, repeated, apiVars, batchVars, otherVars>>

\* upsert_repo_activity: the INSERT after "UPDATE 0"
ActInsert ==
    /\ pc = "act_insert"
    /\ activity' = InsertRow(activity, ActivityRow(ua))
    /\ Return
    /\ UNCHANGED <<top100, update_result, rankVars, fetchVars,
                   daily_stats, day_ix, ua, activity0, repeated, apiVars, batchVars, otherVars>>

\* ------------------------------------------ update_activity_in_db, stepwise

\* the orders list(a_set) can have
ListsOf(S) ==
    {q \in [1..Cardinality(S) -> S] : \A a, b \in DOMAIN q : q[a] = q[b] => a = b}

\* update_activity_in_db(owner, repo, since, until) is entered and awaits
\* fetch_commits(owner, repo, since, until)
EnterUpdateActivity(resume, t, list) ==
    /\ pc' = "fetch_page"
    /\ stack' = <<"aggregate", resume>> \o stack
    /\ FetchLocals(t, list)
    /\ activity0' = activity

\* daily_stats = aggregate_commits_by_day(commits), and a connection is taken
Aggregate ==
    /\ pc = "aggregate"
    /\ daily_stats' = AggregateCommitsByDay(fetched)
    /\ day_ix' = 1
    /\ pc' = "activity_loop"
    /\ UNCHANGED <<storeVars, stack, update_result, rankVars, fetchVars, ua, activity0, repeated, apiVars, batchVars, otherVars>>

\* one turn of `for date_str, data in daily_stats.items()`, or its end
ActivityLoop ==
    /\ pc = "activity_loop"
    /\ IF day_ix > Len(daily_stats)
       THEN /\ Return
            /\ UNCHANGED <<day_ix, ua>>
       ELSE /\ \E authors_list \in ListsOf(daily_stats[day_ix].authors) :
                  EnterUpsertActivity("activity_loop",
                      [owner |-> target[1],
                       repo |-> target[2],
                       date |-> Strptime(daily_stats[day_ix].day),
                       commits |-> daily_stats[day_ix].commits,
                       authors |-> authors_list])
            /\ day_ix' = day_ix + 1
    /\ UNCHANGED <<storeVars, update_result, rankVars, fetchVars, daily_stats, activity0, repeated, apiVars, batchVars, otherVars>>

\* an activity cycle on its own: update_activity_in_db(...) is awaited
CallUpdateActivity(t, list) ==
    /\ pc \in {"Idle", "sync_done"}
    /\ stack = <<>>
    /\ EnterUpdateActivity("sync_done", t, list)
    /\ UNCHANGED <<storeVars, update_result, rankVars, daily_stats, day_ix, ua,
                   repeated, apiVars, batchVars, otherVars>>

\* an upsert on its own: upsert_repo_activity(connection, ...) is awaited
CallUpsert(a) ==
    /\ pc \in {"Idle", "upsert_done", "api_done"}
    /\ stack = <<>>
    /\ EnterUpsertActivity("upsert_done", a)
    /\ activity0' = activity
    /\ repeated' = FALSE
    /\ req' = <<>>
    /\ response' = <<>>
    /\ api_calls' = 0
    /\ UNCHANGED <<storeVars, update_result, rankVars, fetchVars, daily_stats,
                   day_ix, batchVars, otherVars>>

\* the same upsert once more: the call that just returned is made again
RepeatUpsert ==
    /\ pc = "upsert_done"
    /\ stack = <<>>
    /\ EnterUpsertActivity("upsert_done", ua)
    /\ activity0' = activity
    /\ repeated' = TRUE
    /\ UNCHANGED <<storeVars, update_result, rankVars, fetchVars, daily_stats,
                   day_ix, apiVars, batchVars, otherVars>>

\* ------------------------------------------------------ activity endpoint

\* WHERE owner = $1 and repo = $2 AND date BETWEEN $3 AND $4
Selected(B, q) ==
    {r \in DOMAIN B : /\ r.owner = q.owner
                      /\ r.repo = q.repo
                      /\ q.since <= r.date
                      /\ r.date <= q.until}

RECURSIVE OrderedByDate(_, _)
\* ORDER BY date: the orders the rows of S (B's copies of each) can come in
OrderedByDate(B, S) ==
    IF S = {} THEN {<<>>}
    ELSE LET first == {r \in S : \A o \in S : r.date <= o.date}
             rest(r) == IF B[r] > 1 THEN [B EXCEPT ![r] = @ - 1] ELSE B
             left(r) == IF B[r] > 1 THEN S ELSE S \ {r}
         IN  UNION {{<<[date |-> r.date, commits |-> r.commits, authors |-> r.authors]>> \o q :
                        q \in OrderedByDate(rest(r), left(r))} : r \in first}

\* RepoActivity(**row) validates: authors is a list[str]
ValidRepoActivity(row) == \A a \in 1..Len(row.authors) : row.authors[a] # NULL

\* a response of the endpoint
Response(status, body) == [status |-> status, body |-> body]

\* mutant of RangeInvalid: the comparison is turned around
RangeInvalidReversed(since, until) == until > since

\* since > until
RangeInvalid(since, until) == since > until

\* GET /api/repos/{owner}/{repo}/activity?since=..&until=.. reaches the handler
ApiRequest(q) ==
    /\ pc \in {"Idle", "upsert_done", "api_done"}
    /\ pc' = "api_validate"
    /\ req' = q
    /\ response' = <<>>
    /\ api_calls' = 0
    /\ activity0' = activity
    /\ ua' = <<>>
    /\ repeated' = FALSE
    /\ UNCHANGED <<storeVars, stack, update_result, rankVars, fetchVars,
                   daily_stats, day_ix, batchVars, otherVars>>

\* if since > until: raise HTTPException(status_code=400, ...)
ApiValidate ==
    /\ pc = "api_validate"
    /\ IF RangeInvalid(req.since, req.until)
       THEN /\ response' = Response(400, "since after until")
            /\ pc' = "api_done"
       ELSE /\ pc' = "api_fetch"
            /\ UNCHANGED response
    /\ UNCHANGED <<storeVars, stack, update_result, rankVars, fetchVars,
                   syncVars, req, api_calls, batchVars, otherVars>>

\* data = await fetch_repo_activity(...): the SELECT answers. A row that
\* fails validation and the HTTPException(404) raised inside the try are
\* both caught by `except Exception` and answered with 500.
ApiFetch ==
    /\ pc = "api_fetch"
    /\ api_calls' = api_calls + 1
    /\ \E rows \in OrderedByDate(activity, Selected(activity, req)) :
          response' =
              IF \E a \in 1..Len(rows) : ~ValidRepoActivity(rows[a])
              THEN Response(500, "validation error")
              ELSE IF rows = <<>>
              THEN Response(500, "No activity found for the given period")
              ELSE Response(200, rows)
    /\ pc' = "api_done"
    /\ UNCHANGED <<storeVars, stack, update_result, rankVars, fetchVars,
                   syncVars, req, batchVars, otherVars>>

\* data = await fetch_repo_activity(...): the store fails, the RuntimeError
\* is answered with 500
ApiFetchFails ==
    /\ pc = "api_fetch"
    /\ api_calls' = api_calls + 1
    /\ response' = Response(500, "Database error")
    /\ pc' = "api_done"
    /\ UNCHANGED <<storeVars, stack, update_result, rankVars, fetchVars,
                   syncVars, req, batchVars, otherVars>>

\* ------------------------------------------------------------ refresh_data

RECURSIVE RowsInAnyOrder(_)
\* the orders a SELECT without ORDER BY can return the rows of B in
RowsInAnyOrder(B) ==
    IF DOMAIN B = {} THEN {<<>>}
    ELSE UNION {{<<r>> \o q : q \in RowsInAnyOrder(B (-) SetToBag({r}))} : r \in DOMAIN B}

\* mutant of SelectOwnerRepo: the tracked repositories are those of the table
\* as the run found it, before the reconciliation
SelectOwnerRepoBefore(B) ==
    {[j \in 1..Len(q) |-> [owner |-> q[j].owner, repo |-> q[j].repo]] :
        q \in RowsInAnyOrder(table0)}

\* SELECT owner, repo FROM top100
SelectOwnerRepo(B) ==
    {[j \in 1..Len(q) |-> [owner |-> q[j].owner, repo |-> q[j].repo]] :
        q \in RowsInAnyOrder(B)}

\* mutant of NextRecord: the loop steps over a record
NextRecordSkips(i) == i + 2

\* `for record in records` moves on to the next record
NextRecord(i) == i + 1

\* handler(event, context): asyncio.run(main()); main connects and awaits
\* refresh_data(), which awaits update_top100_in_db(). The trigger fires once.
Handler ==
    /\ pc = "Idle"
    /\ stack = <<>>
    /\ returned = NULL
    /\ EnterUpdateTop100("refresh_select")
    /\ UNCHANGED <<batchVars, otherVars>>

\* records = await conn.fetch("SELECT owner, repo FROM top100")
RefreshSelect ==
    /\ pc = "refresh_select"
    /\ \E rs \in SelectOwnerRepo(top100) : records' = rs
    /\ rec_ix' = 1
    /\ pc' = "refresh_loop"
    /\ UNCHANGED <<storeVars, stack, update_result, rankVars, fetchVars, syncVars,
                   apiVars, returned, attempted, failures, otherVars>>

\* one turn of `for record in records`: update_activity_in_db is awaited for
\* the record; or the end of the loop: refresh_data returns, main disconnects
\* and handler returns its status
RefreshLoop(list) ==
    /\ pc = "refresh_loop"
    /\ failures' = IF rec_ix > 1 /\ fetch_failed
                   THEN failures \cup {Len(attempted)}
                   ELSE failures
    /\ IF rec_ix > Len(records)
       THEN /\ pc' = "Idle"
            /\ returned' = Some([status |-> "ok", message |-> "Data refreshed successfully."])
            /\ UNCHANGED <<stack, fetchVars, activity0, rec_ix, attempted>>
       ELSE /\ EnterUpdateActivity("refresh_loop",
                   <<records[rec_ix].owner, SplitFullName(records[rec_ix].repo)[2]>>,
                   list)
            /\ rec_ix' = NextRecord(rec_ix)
            /\ attempted' = Append(attempted, records[rec_ix])
            /\ UNCHANGED returned
    /\ UNCHANGED <<storeVars, update_result, rankVars, daily_stats, day_ix, ua,
                   repeated, apiVars, records, otherVars>>

\* ---------------------------------- upsert_repo_activity, two calls at once

\* the two clients whose upsert_repo_activity calls overlap
Clients == {1, 2}

\* both clients call upsert_repo_activity for one (owner, repo, date), each on
\* its own connection
ConcStart(a1, a2) ==
    /\ pc = "Idle"
    /\ a1.owner = a2.owner /\ a1.repo = a2.repo /\ a1.date = a2.date
    /\ IF cpc = <<>> THEN TRUE ELSE \A c \in Clients : cpc[c] = "done"
    /\ cpc' = [c \in Clients |-> "act_update"]
    /\ cargs' = <<a1, a2>>
    /\ cres' = [c \in Clients |-> UpdateStatus(0)]
    /\ activity0' = activity
    /\ UNCHANGED <<storeVars, pc, stack, update_result, rankVars, fetchVars,
                   daily_stats, day_ix, ua, repeated, apiVars, batchVars, crashed_at>>

\* client c: the UPDATE
ConcUpdate(c) ==
    /\ cpc # <<>>
    /\ cpc[c] = "act_update"
    /\ LET n == SumOver(activity, ActivityMatched(activity, cargs[c]))
       IN  /\ activity' = UpdateActivity(activity, cargs[c])
           /\ cres' = [cres EXCEPT ![c] = UpdateStatus(n)]
           /\ cpc' = [cpc EXCEPT ![c] = IF NoRowUpdated(UpdateStatus(n))
                                        THEN "act_insert" ELSE "done"]
    /\ UNCHANGED <<top100, pc, stack, update_result, rankVars, fetchVars, syncVars,
                   apiVars, batchVars, crashed_at, cargs>>

\* client c: the INSERT after "UPDATE 0"
ConcInsert(c) ==
    /\ cpc # <<>>
    /\ cpc[c] = "act_insert"
    /\ activity' = InsertRow(activity, ActivityRow(cargs[c]))
    /\ cpc' = [cpc EXCEPT ![c] = "done"]
    /\ UNCHANGED <<top100, pc, stack, update_result, rankVars, fetchVars, syncVars,
                   apiVars, batchVars, crashed_at, cargs, cres>>

\* ------------------------------------------------------- store failures

\* mutant of StoreFails: the failure rolls the reconciliation's writes back
StoreFailsRollsBack ==
    /\ Crash
    /\ top100' = table0
    /\ UNCHANGED <<activity, update_result, rankVars, fetchVars, syncVars,
                   apiVars, batchVars, concVars>>

\* the statement the job is at raises (asyncpg.PostgresError, re-raised by the
\* upserts as RuntimeError); no caller up to handler catches it
StoreFails ==
    /\ Crash
    /\ UNCHANGED <<storeVars, update_result, rankVars, fetchVars, syncVars,
                   apiVars, batchVars, concVars>>

\* update_top100_in_db: the DELETE fails
RankDeleteFails ==
    /\ pc = "rank_delete"
    /\ StoreFails

\* upsert_top_100_repo: the UPDATE fails
RankUpdateFails ==
    /\ pc = "rank_update"
    /\ StoreFails

\* upsert_top_100_repo: the INSERT fails
RankInsertFails ==
    /\ pc = "rank_insert"
    /\ StoreFails

\* refresh_data: the SELECT of the tracked repositories fails
RefreshSelectFails ==
    /\ pc = "refresh_select"
    /\ StoreFails

\* upsert_repo_activity: the UPDATE fails
ActUpdateFails ==
    /\ pc = "act_update"
    /\ StoreFails

\* upsert_repo_activity: the INSERT fails
ActInsertFails ==
    /\ pc = "act_insert"
    /\ StoreFails

\* ------------------------------------------------------- specifications

\* no call is running: every local and every history variable is at its start
InitLocals ==
    /\ pc = "Idle"
    /\ repos = <<>>
    /\ k = 1
    /\ update_result = UpdateStatus(0)
    /\ table0 = EmptyBag
    /\ search_result = [kind |-> "pending"]
    /\ prev_repos = NULL
    /\ prev_deleted = {}
    /\ stack = <<>>
    /\ target = <<>>
    /\ remote = <<>>
    /\ page = 1
    /\ commits = <<>>
    /\ fetched = <<>>
    /\ requests = <<>>
    /\ fetch_failed = FALSE
    /\ daily_stats = <<>>
    /\ day_ix = 1
    /\ ua = <<>>
    /\ activity0 = EmptyBag
    /\ repeated = FALSE
    /\ req = <<>>
    /\ response = <<>>
    /\ api_calls = 0
    /\ records = <<>>
    /\ rec_ix = 1
    /\ returned = NULL
    /\ attempted = <<>>
    /\ failures = {}
    /\ crashed_at = "nowhere"
    /\ cpc = <<>>
    /\ cargs = <<>>
    /\ cres = <<>>

\* both tables are empty and no call is running
Init ==
    /\ top100 = EmptyBag
    /\ activity = EmptyBag
    /\ InitLocals

\* ranking cycles: update_top100_in_db called again and again
RankNext ==
    \/ CallUpdateTop100
    \/ \E resp \in SearchResponses(RankingsOf(Names, MetricsSet, MaxRank)) :
          FetchTop100(resp)
    \/ RankDelete
    \/ RankUpdate
    \/ RankInsert

SpecRank == Init /\ [][RankNext]_vars

\* one paginated fetch against every commit list of RemoteLists(MaxPages)
FetchNext ==
    \/ \E t \in Names, list \in RemoteLists(MaxPages) : CallFetchCommits(t, list)
    \/ ListCommitsPage
    \/ ListCommitsFails

RECURSIVE SeqsUpTo(_, _)
\* all sequences over S of length at most n
SeqsUpTo(S, n) ==
    IF n = 0 THEN {<<>>}
    ELSE LET shorter == SeqsUpTo(S, n - 1)
         IN  shorter \cup {Append(q, x) : q \in shorter, x \in S}

\* the aggregator on every sequence of at most MaxCommits commit records
AggNext == \E cs \in SeqsUpTo(CommitRecords, MaxCommits) : CallAggregate(cs)

SpecAgg == Init /\ [][AggNext]_vars

\* the repositories and the commit lists of the activity specification
SyncTargets == {<<"a", "x">>, <<"b", "x">>}
SyncLists ==
    {Repeat(pt, n) : pt \in Patterns,
                     n \in {0, 1} \cup {f * per_page + 1 : f \in 1..SyncPages}}

\* activity cycles: update_activity_in_db called again and again
ActivityNext ==
    \/ \E t \in SyncTargets, list \in SyncLists : CallUpdateActivity(t, list)
    \/ ListCommitsPage
    \/ ListCommitsFails
    \/ Aggregate
    \/ ActivityLoop
    \/ ActUpdate
    \/ ActInsert

SpecActivity == Init /\ [][ActivityNext]_vars

\* the dates, the author lists and the arguments of the store specification
Days == {1, 2}
AuthorLists == {<<Some("Alice")>>, <<NULL>>}
StoreKeys == {<<"a", "x", 1>>, <<"a", "x", 2>>, <<"b", "x", 1>>}
UpsertArgs ==
    {[owner |-> key[1], repo |-> key[2], date |-> key[3], commits |-> c, authors |-> al] :
        key \in StoreKeys, c \in 1..MaxCount, al \in AuthorLists}
Queries ==
    {[owner |-> t[1], repo |-> t[2], since |-> a, until |-> b] :
        t \in SyncTargets, a \in Days, b \in Days}

\* the store under direct upserts and endpoint requests, one at a time
StoreNext ==
    \/ \E a \in UpsertArgs : CallUpsert(a)
    \/ RepeatUpsert
    \/ ActUpdate
    \/ ActInsert
    \/ \E q \in Queries : ApiRequest(q)
    \/ ApiValidate
    \/ ApiFetch
    \/ ApiFetchFails

SpecStore == Init /\ [][StoreNext]_vars

\* the rankings and the commit lists of the batch specification
BatchRankings == RankingsOf(Names, {MetricsA}, MaxTracked)
BatchLists == {Repeat(pt, n) : pt \in Patterns, n \in {0, 1, 2}}

\* the steps of a run of the batch job
BatchRun ==
    \/ \E resp \in SearchResponses(BatchRankings) : FetchTop100(resp)
    \/ RankDelete
    \/ RankUpdate
    \/ RankInsert
    \/ RefreshSelect
    \/ \E list \in BatchLists : RefreshLoop(list)
    \/ ListCommitsPage
    \/ ListCommitsFails
    \/ Aggregate
    \/ ActivityLoop
    \/ ActUpdate
    \/ ActInsert

\* the batch job: the trigger calls handler once, the run goes on to its end
BatchNext == Handler \/ BatchRun

SpecBatch == Init /\ [][BatchNext]_vars /\ WF_vars(BatchRun)

\* the top100 table a completed reconciliation of ranking items leaves on an
\* empty table
TableOf(items) ==
    LET rs == FetchTop100Repos([items |-> items])
    IN  SetToBag({Top100Row(rs[j]) : j \in 1..Len(rs)})

\* the activity table after one commit of one day was synced for each
\* repository of ranking items
ActivityOf(items) ==
    SetToBag({ActivityRow([owner |-> items[j].owner.login,
                           repo |-> SplitFullName(items[j].full_name)[2],
                           date |-> 1, commits |-> 1,
                           authors |-> <<Some("Alice")>>]) : j \in 1..Len(items)})

\* the tables as an earlier run over some ranking left them
InitTracked ==
    /\ \E items \in BatchRankings :
          /\ top100 = TableOf(items)
          /\ activity = ActivityOf(items)
    /\ InitLocals

\* a run of the batch job in which any store statement may fail
FaultyRun ==
    \/ BatchRun
    \/ RankDeleteFails
    \/ RankUpdateFails
    \/ RankInsertFails
    \/ RefreshSelectFails
    \/ ActUpdateFails
    \/ ActInsertFails

FaultyNext == Handler \/ FaultyRun

SpecFaulty == InitTracked /\ [][FaultyNext]_vars /\ WF_vars(FaultyRun)

\* the rankings of the repeated-name specification: any items of two
\* repositories, a repository possibly listed more than once
DupNames == {FullName("a", "x"), FullName("b", "x")}
DupRankings ==
    SeqsUpTo({SearchItem(n, m) : n \in DupNames, m \in MetricsSet}, MaxRank)

\* ranking cycles over rankings that may repeat a name, any store statement
\* of which may fail
DupNext ==
    \/ CallUpdateTop100
    \/ \E resp \in SearchResponses(DupRankings) : FetchTop100(resp)
    \/ RankDelete
    \/ RankUpdate
    \/ RankInsert
    \/ RankDeleteFails
    \/ RankUpdateFails
    \/ RankInsertFails

SpecDup == Init /\ [][DupNext]_vars

\* the arguments of the overlapping upserts: both calls name one key
ConcArgs ==
    {[owner |-> key[1], repo |-> key[2], date |-> key[3], commits |-> c,
      authors |-> <<Some("Alice")>>] : key \in StoreKeys, c \in 1..MaxCount}

\* pairs of upsert_repo_activity calls on one key, their statements
\* interleaved in every order
ConcNext ==
    \/ \E a1, a2 \in ConcArgs : ConcStart(a1, a2)
    \/ \E c \in Clients : ConcUpdate(c)
    \/ \E c \in Clients : ConcInsert(c)

SpecConc == Init /\ [][ConcNext]_vars

\* the provider answers every request (with a page or an error): a page
\* request is never left pending
SpecFetch == Init /\ [][FetchNext]_vars /\ WF_vars(ListCommitsPage \/ ListCommitsFails)

\* ------------------------------------------------- claims: top100 (SpecRank)

\* the full names stored in a top100 table
StoredNames(B) == {r.repo : r \in DOMAIN B}
\* the rows of a top100 table with full name n
RowsOf(B, n) == {r \in DOMAIN B : r.repo = n}

\* C1: when update_top100_in_db has returned, the set of full names stored in
\* top100 is exactly the set of full names of the fetched ranking, whatever the
\* table held before.
C1_NamesEqualRanking ==
    pc = "rank_done" => StoredNames(top100) = NewRepos(repos)

\* C1 witness: a completed reconciliation that had a stale row to delete, a
\* row to keep and a new name to insert.
C1_Witness ==
    /\ pc = "rank_done"
    /\ StoredNames(table0) \ NewRepos(repos) # {}
    /\ NewRepos(repos) \ StoredNames(table0) # {}
    /\ StoredNames(table0) \cap NewRepos(repos) # {}

\* C2: when update_top100_in_db has returned, every full name that was in the
\* table when it was called and is in the fetched ranking has a row, and that
\* row's position_prev is the position_cur the name had when it was called.
C2_PrevIsPriorCur ==
    pc = "rank_done" =>
        \A r0 \in DOMAIN table0 :
            r0.repo \in NewRepos(repos) =>
                /\ RowsOf(top100, r0.repo) # {}
                /\ \A r \in RowsOf(top100, r0.repo) :
                      r.position_prev = Some(r0.position_cur)

\* C2 witness: a completed reconciliation of a name that was stored before and
\* whose rank changed.
C2_Witness ==
    /\ pc = "rank_done"
    /\ \E r0 \in DOMAIN table0 : \E r \in RowsOf(top100, r0.repo) :
          /\ r.position_cur # r0.position_cur
          /\ r.position_prev = Some(r0.position_cur)

\* C3: when update_top100_in_db has returned, every full name of the fetched
\* ranking that was not in the table when it was called has a row whose
\* position_prev is null.
C3_NewEntryPrevNull ==
    pc = "rank_done" =>
        \A n \in NewRepos(repos) \ StoredNames(table0) :
            /\ RowsOf(top100, n) # {}
            /\ \A r \in RowsOf(top100, n) : r.position_prev = NULL

\* C3 witness: a completed reconciliation that inserted a new name into a
\* table that kept another row.
C3_Witness ==
    /\ pc = "rank_done"
    /\ \E n \in NewRepos(repos) \ StoredNames(table0) :
          \E r \in RowsOf(top100, n) : r.position_prev = NULL
    /\ \E r \in DOMAIN top100 : r.position_prev # NULL

\* ----------------------------------------------- claims: fetch (SpecFetch)

RECURSIVE ConcatPages(_, _)
\* the pages of list that were requested, one after the other
ConcatPages(list, reqs) ==
    IF reqs = <<>> THEN <<>>
    ELSE PageOf(list, Head(reqs), per_page) \o ConcatPages(list, Tail(reqs))

\* the fetch has returned through its return statement, not its except branch
FetchReturned == pc = "fetch_done" /\ ~fetch_failed

\* C4 (safety part): the j-th request of a fetch asks for page j; a fetch that
\* returns normally has stopped at the first page that is empty or shorter
\* than per_page and returns the concatenation of the pages it received; with
\* three full pages and an empty fourth that is 3 * per_page records after 4
\* requests.
C4_Pagination ==
    /\ \A j \in 1..Len(requests) : requests[j] = j
    /\ pc = "fetch_page" => commits = ConcatPages(remote, requests)
    /\ FetchReturned =>
          /\ Len(requests) >= 1
          /\ \A j \in 1..(Len(requests) - 1) :
                Len(PageOf(remote, j, per_page)) = per_page
          /\ Len(PageOf(remote, Len(requests), per_page)) < per_page
          /\ fetched = ConcatPages(remote, requests)
          /\ Len(remote) = 3 * per_page =>
                Len(fetched) = 3 * per_page /\ Len(requests) = 4

\* C4: the pagination above holds in every state, and every fetch that is
\* requesting pages of a finite commit list returns.
C4_PaginatedFetch ==
    /\ []C4_Pagination
    /\ (pc = "fetch_page") ~> (pc = "fetch_done")

\* C4 witness: three full pages and an empty fourth, fetched with the
\* requests 1, 2, 3, 4.
C4_Witness ==
    /\ FetchReturned
    /\ Len(remote) = 3 * per_page
    /\ requests = <<1, 2, 3, 4>>
    /\ Len(fetched) = 3 * per_page

\* ------------------------------------------- claims: aggregator (SpecAgg)

RECURSIVE SumCommits(_, _)
\* the sum of the commit counts of the first n day buckets
SumCommits(stats, n) ==
    IF n = 0 THEN 0 ELSE stats[n].commits + SumCommits(stats, n - 1)

\* the calendar date written in a commit's author timestamp, as a day string
CalendarDay(c) == [iso |-> c.commit.author.date.day]

\* the positions of the commits of cs written on calendar day d
CommitsOn(cs, d) == {j \in 1..Len(cs) : CalendarDay(cs[j]) = d}

\* C6: the commit counts of the day buckets sum to the number of input
\* commits, there is one bucket per calendar date that occurs in the input,
\* and a bucket counts exactly the commits whose author timestamp is written
\* on its date.
C6_CountsPartitionInput ==
    pc = "agg_done" =>
        /\ SumCommits(daily_stats, Len(daily_stats)) = Len(fetched)
        /\ \A a, b \in 1..Len(daily_stats) :
              daily_stats[a].day = daily_stats[b].day => a = b
        /\ \A j \in 1..Len(fetched) :
              \E a \in 1..Len(daily_stats) : daily_stats[a].day = CalendarDay(fetched[j])
        /\ \A a \in 1..Len(daily_stats) :
              daily_stats[a].commits = Cardinality(CommitsOn(fetched, daily_stats[a].day))

\* C6 witness: two commits of one calendar date, one of them with an offset
\* that puts it on the day before in UTC, in one bucket of count 2.
C6_Witness ==
    /\ pc = "agg_done"
    /\ Len(fetched) = 2
    /\ fetched[1].commit.author.date.tz # fetched[2].commit.author.date.tz
    /\ Len(daily_stats) = 1
    /\ daily_stats[1].commits = 2

\* the commit has no author name: the key is absent or its value is null
LacksName(c) ==
    \/ "name" \notin DOMAIN c.commit.author
    \/ c.commit.author.name = NULL

\* C7: every commit without an author name (absent or null) is counted in
\* its day bucket under the author "Unknown", and no bucket holds a null
\* author; two such commits on one day give authors = {"Unknown"}, count 2.
C7_MissingNameIsUnknown ==
    pc = "agg_done" =>
        \A a \in 1..Len(daily_stats) :
            /\ NULL \notin daily_stats[a].authors
            /\ \A j \in CommitsOn(fetched, daily_stats[a].day) :
                  LacksName(fetched[j]) => Some("Unknown") \in daily_stats[a].authors
            /\ (/\ daily_stats[a].commits = 2
                /\ \A j \in CommitsOn(fetched, daily_stats[a].day) : LacksName(fetched[j]))
               => daily_stats[a].authors = {Some("Unknown")}

\* --------------------------------------- claims: activity sync (SpecActivity)

\* C5: when a page request of a fetch has failed, the fetch has returned the
\* empty sequence to update_activity_in_db, which goes on (the job has not
\* crashed) without a store statement: the activity table stays as it was
\* when the repository's sync was called.
C5_FailedFetchWritesNothing ==
    fetch_failed =>
        /\ fetched = <<>>
        /\ pc \in {"aggregate", "activity_loop", "sync_done"}
        /\ pc # "aggregate" => daily_stats = <<>>
        /\ activity = activity0

\* C5 witness: a sync whose second page request failed after a full first
\* page, ended with the repository's earlier rows still in the table.
C5_Witness ==
    /\ pc = "sync_done"
    /\ fetch_failed
    /\ requests = <<1, 2>>
    /\ Len(commits) = per_page
    /\ \E r \in DOMAIN activity : r.owner = target[1] /\ r.repo = target[2]

\* ----------------------------------------------- claims: store (SpecStore)

\* the copies of the rows with the key of the arguments a in table B
KeyCount(B, a) == SumOver(B, ActivityMatched(B, a))

\* C8: an upsert called on a table with at most one row for its key leaves
\* exactly one row for the key, holding the given commits and authors; when
\* the call repeats the one before it, the table is as that call left it.
C8_UpsertIdempotent ==
    (pc = "upsert_done" /\ KeyCount(activity0, ua) <= 1) =>
        /\ KeyCount(activity, ua) = 1
        /\ \A r \in ActivityMatched(activity, ua) :
              r.commits = ua.commits /\ r.authors = ua.authors
        /\ repeated => activity = activity0

\* C8 witness: a repeated upsert has returned, on a table that holds other
\* rows too.
C8_Witness ==
    /\ pc = "upsert_done"
    /\ repeated
    /\ KeyCount(activity, ua) = 1
    /\ RowCount(activity) > 1

\* C9: a request with since > until never reaches the fetch: it is answered
\* with 400, no store call is issued for it and the activity table is as it
\* was when the request came in.
C9_InvalidRangeRejected ==
    (pc \in {"api_validate", "api_fetch", "api_done"} /\ req.since > req.until) =>
        /\ pc # "api_fetch"
        /\ api_calls = 0
        /\ activity = activity0
        /\ pc = "api_done" => response.status = 400

\* C9 witness: a request with since > until for a repository that has
\* activity rows was answered with 400.
C9_Witness ==
    /\ pc = "api_done"
    /\ req.since > req.until
    /\ response.status = 400
    /\ \E r \in DOMAIN activity : r.owner = req.owner /\ r.repo = req.repo

\* ------------------------------------------------ claims: batch (SpecBatch)

\* the calls of update_activity_in_db so far are the first records, in order
C10_Attempts ==
    /\ Len(attempted) <= Len(records)
    /\ attempted = SubSeq(records, 1, Len(attempted))
    /\ fetch_failed => pc # "Crashed"
    /\ (pc = "Idle" /\ returned # NULL) =>
          /\ attempted = records
          /\ attempted \in SelectOwnerRepo(top100)

\* C10: in a run whose ranking sync succeeded (the run reaches the SELECT of
\* the tracked repositories), update_activity_in_db is called for every row
\* read from top100, each exactly once and in the order read, whether or not
\* a commit fetch fails on the way; a failed fetch is followed by the calls
\* for the remaining records, and the run ends with handler returning (Idle).
C10_FetchFailureDoesNotBlock ==
    /\ []C10_Attempts
    /\ (pc = "refresh_select") ~> (pc = "Idle" /\ returned # NULL /\ attempted = records)
    /\ (fetch_failed /\ Len(attempted) < Len(records)) ~> (Len(attempted) = Len(records))

\* C10 witness: a run over two tracked repositories has returned; the fetch
\* of the first one failed, the second one was synced and has an activity row.
C10_Witness ==
    /\ pc = "Idle"
    /\ returned # NULL
    /\ Len(records) = 2
    /\ attempted = records
    /\ 1 \in failures
    /\ \E r \in DOMAIN activity :
          /\ r.owner = attempted[2].owner
          /\ r.repo = SplitFullName(attempted[2].repo)[2]

\* ----------------------------------------- claims: store failures (SpecFaulty)

\* C11: once the ranking sync has committed and activity syncs have begun, a
\* store failure in the activity sync of a repository does not end the run:
\* the run never reaches a terminal failure state.
C11_StoreFailureDoesNotAbort ==
    Len(attempted) > 0 => pc # "Crashed"

\* C12: a store failure in the upsert of one day bucket does not keep the
\* later buckets of the same repository from being attempted: when the
\* repository's sync has stopped, no bucket of daily_stats is left without
\* an upsert attempt.
C12_EveryDayAttempted ==
    (pc = "Crashed" /\ Len(attempted) > 0) => day_ix > Len(daily_stats)

\* the provider's answer to the rank fetch is an error or a payload without
\* the list of items
Malformed ==
    \/ search_result.kind = "error"
    \/ search_result.kind = "payload" /\ "items" \notin DOMAIN search_result.body

\* C13: when the rank fetch fails or answers a payload without the list of
\* items, the run fails before any reconciliation: top100 is as it was when
\* the reconciliation was called and no activity sync is started.
C13_MalformedRankingIsFatal ==
    Malformed =>
        /\ pc = "Crashed"
        /\ top100 = table0
        /\ attempted = <<>>

\* the statements of the top100 reconciliation
RankStatements == {"rank_delete", "rank_update", "rank_insert"}

\* the run was ended by a store failure in the top100 reconciliation: top100
\* holds what the statements before the failing one wrote, nothing was read
\* for the activity phase and the activity table is as the run found it
C14_Aborted ==
    crashed_at \in RankStatements =>
        /\ pc = "Crashed"
        /\ records = <<>> /\ attempted = <<>>
        /\ \E items \in BatchRankings :
              table0 = TableOf(items) /\ activity = ActivityOf(items)
        /\ crashed_at = "rank_delete" => top100 = table0
        /\ crashed_at # "rank_delete" =>
              /\ k <= Len(repos)
              /\ top100 = UpsertedUpTo(DeleteStale(table0, NewRepos(repos)), repos, k - 1)

\* C14: a store failure in the DELETE or in the k-th upsert of the top100
\* reconciliation ends the reconciliation and the run: no later upsert and
\* no activity sync is executed (the crashed run takes no further step),
\* and the DELETE and the upserts completed before the failure stay in the
\* table.
C14_RankFailureAbortsKeepsCommitted ==
    /\ []C14_Aborted
    /\ [][pc = "Crashed" => pc' = "Crashed" /\ top100' = top100 /\ activity' = activity]_vars

\* C14 witness: the INSERT of the second record failed after the DELETE
\* removed a stale row and the first record was upserted.
C14_Witness ==
    /\ pc = "Crashed"
    /\ crashed_at = "rank_insert"
    /\ k = 2
    /\ \E r \in DOMAIN table0 : r.repo \notin NewRepos(repos) /\ r \notin DOMAIN top100
    /\ \E r \in DOMAIN top100 : r.repo = repos[1].repo /\ r.position_cur = 1

\* ------------------------------------------- claims: top100 rows (SpecDup)

\* C15: in every reachable state of top100 (between the statements of a
\* reconciliation and after a failed one too, over any sequence of cycles)
\* no two rows hold the same full name.
C15_OneRowPerName ==
    /\ \A r \in DOMAIN top100 : top100[r] = 1
    /\ \A r1, r2 \in DOMAIN top100 : r1.repo = r2.repo => r1 = r2

\* C15 witness: a cycle whose ranking lists one name twice has ended on a
\* table that held that name before, and the table holds two names.
C15_Witness ==
    /\ pc = "rank_done"
    /\ Len(repos) = 2
    /\ repos[1].repo = repos[2].repo
    /\ \E r \in DOMAIN table0 : r.repo = repos[1].repo
    /\ RowCount(table0) = 2

\* the ranking rs lists no full name twice
DistinctNames(rs) == \A i, j \in 1..Len(rs) : rs[i].repo = rs[j].repo => i = j

\* every rank 1..Len(repos) is held by exactly one row of top100 and no row
\* holds another value
PositionsArePermutation ==
    /\ \A i \in 1..Len(repos) :
          SumOver(top100, {r \in DOMAIN top100 : r.position_cur = i}) = 1
    /\ \A r \in DOMAIN top100 : r.position_cur \in 1..Len(repos)

\* C16 as stated: after every completed reconciliation with a ranking of n
\* records the position_cur values of the rows are a permutation of 1..n.
C16_PositionsPermutation == pc = "rank_done" => PositionsArePermutation

\* C16 as amended: after every completed reconciliation with a ranking of n
\* records of pairwise distinct full names the position_cur values of the
\* rows are a permutation of 1..n.
C16_DistinctPositionsPermutation ==
    (pc = "rank_done" /\ DistinctNames(repos)) => PositionsArePermutation

\* C16 witness: a reconciliation of two distinct names has ended on a table
\* that held both names at the opposite ranks.
C16_Witness ==
    /\ pc = "rank_done"
    /\ Len(repos) = 2
    /\ DistinctNames(repos)
    /\ \A i \in 1..2 : \E r \in DOMAIN table0 :
          r.repo = repos[i].repo /\ r.position_cur = 3 - i

\* ------------------------------------- claims: activity history (SpecFaulty)

\* the rows of table B with the key of row r
RowsWithKey(B, r) ==
    {x \in DOMAIN B : x.owner = r.owner /\ x.repo = r.repo /\ x.date = r.date}

\* C17: no step of a run removes an activity row: every key (owner, repo,
\* date) of the activity table keeps at least the rows it had, whatever the
\* step does to top100.
C17_ActivityNeverDeleted ==
    [][\A r \in DOMAIN activity :
          SumOver(activity', RowsWithKey(activity', r)) >= SumOver(activity, RowsWithKey(activity, r))]_vars

\* C17 witness: a run has ended in which a repository left the ranking (its
\* top100 row is gone), its activity row is still there, and a row of
\* another repository was written.
C17_Witness ==
    /\ pc = "Idle"
    /\ returned # NULL
    /\ \E r \in DOMAIN table0 :
          /\ \A x \in DOMAIN top100 : x.repo # r.repo
          /\ \E a \in DOMAIN activity : a.owner = r.owner /\ a.repo = SplitFullName(r.repo)[2]
    /\ \E a \in DOMAIN activity : a.date = 2

\* --------------------------------------- claims: repeated cycles (SpecDup)

\* the rows of table B without their position_prev
WithoutPrev(B) == {[r EXCEPT !.position_prev = NULL] : r \in DOMAIN B}

\* the cycle that has just ended had the ranking of the completed cycle
\* before it
SameRankingTwice == pc = "rank_done" /\ prev_repos = Some(repos)

\* C18 as stated: a reconciliation run a second time with the same ranking
\* leaves top100 as the first run left it, position_prev included.
C18_RetryIdempotent == SameRankingTwice => top100 = table0

\* C18 as amended: a reconciliation run a second time with the same ranking
\* leaves the rows of the first run with the same position_cur and metrics;
\* position_prev is not kept: for a ranking of distinct full names the
\* second run sets it to the row's position_cur.
C18_RetryKeepsAllButPrev ==
    SameRankingTwice =>
        /\ WithoutPrev(top100) = WithoutPrev(table0)
        /\ RowCount(top100) = RowCount(table0)
        /\ DistinctNames(repos) =>
              \A r \in DOMAIN top100 : r.position_prev = Some(r.position_cur)

\* C18 witness: the same ranking of two names was reconciled twice, and the
\* first of the two runs had stored a row with no previous rank.
C18_Witness ==
    /\ SameRankingTwice
    /\ Len(repos) = 2
    /\ DistinctNames(repos)
    /\ \E r \in DOMAIN table0 : r.position_prev = NULL
    /\ \E r \in DOMAIN table0 : r.position_prev # NULL /\ r.position_prev # Some(r.position_cur)

\* ------------------------------------- claims: overlapping upserts (SpecConc)

\* C19: when two upserts of one activity key have run concurrently, under
\* whatever interleaving of their UPDATE and INSERT statements, the activity
\* table holds at most one row for the key.
C19_ConcurrentUpsertsOneRow ==
    (cpc # <<>> /\ \A c \in Clients : cpc[c] = "done") =>
        KeyCount(activity, cargs[1]) <= 1

\* ------------------------------------------ claims: order of the batch steps

\* the (owner, repo) pairs of the rows of top100
TrackedPairs(B) == {<<r.owner, r.repo>> : r \in DOMAIN B}

\* the top100 table the finished reconciliation of the run leaves
Reconciled == UpsertedUpTo(DeleteStale(table0, NewRepos(repos)), repos, Len(repos))

\* the statements of update_top100_in_db have not all been executed
RankSyncRunning ==
    pc \in {"fetch_top100", "rank_delete", "rank_update", "rank_insert", "refresh_select"}

\* while the reconciliation runs no activity sync has started; afterwards the
\* records read are the rows of the reconciled table, one record per row
C20_TrackedAreReconciled ==
    /\ RankSyncRunning => attempted = <<>> /\ records = <<>>
    /\ Len(attempted) > 0 =>
          /\ top100 = Reconciled
          /\ Len(records) = RowCount(top100)
          /\ {<<records[j].owner, records[j].repo>> : j \in 1..Len(records)}
                = TrackedPairs(top100)
    /\ (pc = "Idle" /\ returned # NULL) => attempted = records

\* C20: the batch steps are strictly sequential. An activity sync starts only
\* from the loop of refresh_data with no other call in progress, hence after
\* update_top100_in_db (the DELETE and every upsert) has returned and after
\* the previous activity sync has ended; it is the sync of the next record
\* read from top100, and the records read are exactly the rows of top100 as
\* the reconciliation of this run left it.
C20_StrictlySequential ==
    /\ []C20_TrackedAreReconciled
    /\ [][attempted' # attempted =>
            /\ pc = "refresh_loop" /\ stack = <<>>
            /\ top100 = Reconciled /\ top100' = top100
            /\ attempted' = Append(attempted, records[Len(attempted) + 1])]_vars

\* C20 witness: the run found a tracked repository that the new ranking no
\* longer lists; the reconciliation removed it and added another, and the
\* sync of the second of the two tracked repositories has started.
C20_Witness ==
    /\ Len(attempted) = 2
    /\ pc = "fetch_page"
    /\ TrackedPairs(table0) \ TrackedPairs(top100) # {}
    /\ TrackedPairs(top100) \ TrackedPairs(table0) # {}

\* ------------------------------- claims: a name that comes back (SpecRank)

\* while the upserts run the table is the table the cycle found, first
\* stripped of its stale rows, then with the upserts of the records before
\* repos[k] applied: the DELETE precedes every upsert
C21_DeleteBeforeUpserts ==
    /\ pc = "rank_delete" => top100 = table0
    /\ pc \in {"rank_update", "rank_insert"} =>
          top100 = UpsertedUpTo(DeleteStale(table0, NewRepos(repos)), repos, k - 1)

\* C21: within a reconciliation the DELETE of the stale rows precedes every
\* upsert, and when a cycle has completed right after a completed cycle whose
\* ranking did not list a full name that the new ranking lists (once, as the
\* provider lists a repository), the name has one row, with position_prev
\* null and position_cur its rank in the new ranking, whatever row it had
\* before the earlier cycle.
C21_ReappearedIsFresh ==
    /\ C21_DeleteBeforeUpserts
    /\ (pc = "rank_done" /\ prev_repos # NULL) =>
          \A j \in 1..Len(repos) :
              repos[j].repo \notin NewRepos(prev_repos[1]) =>
                  /\ SumOver(top100, RowsOf(top100, repos[j].repo)) = 1
                  /\ \A r \in RowsOf(top100, repos[j].repo) :
                        r.position_prev = NULL /\ r.position_cur = j

\* C21 witness: a cycle deleted the row of a name that held rank 2, and the
\* next cycle, now completed, lists the name at rank 1.
C21_Witness ==
    /\ pc = "rank_done"
    /\ prev_repos # NULL
    /\ Len(repos) > 0
    /\ <<repos[1].repo, 2>> \in prev_deleted
    /\ \E r \in RowsOf(top100, repos[1].repo) :
          r.position_prev = NULL /\ r.position_cur = 1

\* --------------------------------- claims: a name listed twice (SpecDup)

\* record j of the ranking rs is the last one with its full name, and not the
\* only one
LastOfRepeated(rs, j) ==
    /\ \E i \in 1..(j - 1) : rs[i].repo = rs[j].repo
    /\ \A i \in (j + 1)..Len(rs) : rs[i].repo # rs[j].repo

\* the row r holds the rank and the metrics of the record d
HoldsRecord(r, d) ==
    /\ r.position_cur = d.position_cur
    /\ r.stars = d.stars
    /\ r.watchers = d.watchers
    /\ r.forks = d.forks
    /\ r.open_issues = d.open_issues
    /\ r.language = d.language

\* C22: a ranking that lists a full name more than once is not rejected (a
\* cycle ends without completing only where the provider or a store
\* statement failed), and when the reconciliation has completed the name has
\* one row, whose position_cur and metrics are those of its last occurrence
\* in the ranking.
C22_LastOccurrenceWins ==
    /\ pc = "Crashed" => crashed_at \in {"fetch_top100"} \cup RankStatements
    /\ pc = "rank_done" =>
          \A j \in 1..Len(repos) :
              LastOfRepeated(repos, j) =>
                  /\ SumOver(top100, RowsOf(top100, repos[j].repo)) = 1
                  /\ \A r \in RowsOf(top100, repos[j].repo) : HoldsRecord(r, repos[j])

\* C22 witness: a completed reconciliation of a ranking that lists one name
\* at rank 1 and at rank 2 with different metrics; the row holds rank 2 and
\* the metrics of the second record.
C22_Witness ==
    /\ pc = "rank_done"
    /\ Len(repos) = 2
    /\ LastOfRepeated(repos, 2)
    /\ repos[1].stars # repos[2].stars
    /\ \E r \in RowsOf(top100, repos[2].repo) :
          HoldsRecord(r, repos[2]) /\ ~HoldsRecord(r, repos[1])

====
